---------------------------- MODULE Spec2Model ----------------------------
(***************************************************************************)
(* Canvas -> Notion reconciliation.  Three of the repository's scripts are  *)
(* modelled side by side, selected by the variable impl:                    *)
(*   "sync"  canvas_notion_sync.py  (CanvasNotionSync.sync_assignments)     *)
(*   "cn"    Canvas_Notion.py       (main / upsert_assignment)              *)
(*   "c2n"   canvas_to_notion.py    (main, one filtered query per item)     *)
(* The target store (the Notion database) and the source (Canvas) are part  *)
(* of the state; every HTTP call is one step whose response is drawn from   *)
(* the outcomes the service can give (success with the data, or a           *)
(* non-success status).                                                     *)
(***************************************************************************)
EXTENDS Integers, Sequences, FiniteSets, TLC

\* ------------------------------------------------------------------ bounds
\* Number of consecutive program runs explored.
MaxRuns == 2
\* Records per page of the target store's query response.
PageSize == 2
\* Longest target store the scan-only specification starts from.
MaxScanLen == 5
\* Number of edits of the source between two runs.
MaxEdits == 1
\* Number of calls answered with a non-success status, over all runs.
MaxFaults == 1
\* Access tokens are numbered as they are issued; the tokens numbered below
\* MaxTokens may expire.
MaxTokens == 3

\* ------------------------------------------------------------ source world
\* Python's None / JSON null, where the other values are strings.
None == "None"
\* None where the other values are tuples (an optional cursor, date, number).
Null == <<>>

\* The scopes (courses) of the source and the item ids each one lists.
CourseIds == <<1, 2>>
CourseItems == <<(<<1, 2>>), (<<3>>)>>
ItemIds == {1, 2, 3}

\* str(): decimal text of an integer.
str(n) == ToString(n)

\* A missing submission (get_assignment_submission returned None).
NoSubmission == [absent |-> TRUE]
\* dict.get(key, default)
Get(d, key, default) == IF key \in DOMAIN d THEN d[key] ELSE default

\* A due timestamp as Canvas emits it: <<local time, offset suffix>>; the
\* empty tuple stands for a missing (null) due_at.
NoDue == <<>>
SrcDue == {NoDue, <<1, "Z">>}
InitDue(i) == IF i = 2 THEN NoDue ELSE <<1, "Z">>
InitName(i) == "hw" \o str(i)
Renamed(i) == "hw" \o str(i) \o "-v2"

\* The course object Canvas returns for course c.
CourseNames == <<"Math", "Art">>
Course(c) == [id |-> c, name |-> CourseNames[c]]

\* Free text of an item, as a sequence of characters; <<>> is a missing one.
Description(i) == IF i = 2 THEN <<>> ELSE <<"t", "x", "t">>
\* points_possible of an item: <<>> is null.
Points(i) == IF i = 3 THEN <<>> ELSE <<10>>

VARIABLES
  impl,                 \* which script runs
  store,                \* the Notion database: sequence of pages
  canvas,               \* the Canvas side: per item its mutable fields
  edits,                \* number of source edits done so far
  faults,               \* number of non-success responses so far
  run,                  \* number of runs started
  pc,                   \* position of the running script
  existing_assignments, \* sync: Canvas ID -> page id  (cn: notion_map)
  has_more,             \* scan loop variable
  start_cursor,         \* scan loop variable (cn: next_cursor)
  results,              \* cn: pages accumulated by the scan
  scanned,              \* number of page requests answered with success
  queries,              \* the page requests of this run's scan, with their answers
  schema,               \* cn: property names of the database
  courses,              \* sync: the course list of this run
  ci,                   \* index of the course being processed
  course_name,          \* name used for the current course
  assignments,          \* item list of the current course
  ai,                   \* index of the next item of assignments
  total_assignments,    \* sync counters
  new_assignments,
  updated_assignments,
  summary,              \* what the finished run reports
  reqs,                 \* write requests sent to the target in this run
  fetched,              \* scopes whose item listing was requested in this run
  failed,               \* kinds of calls that got a non-success response in this run
  prev,                 \* how the run before this one went
  the_submission,       \* sync: submission, as fetched for the last item
  the_status,           \* sync: the status resolved from it
  token_file,           \* oauth: contents of .token.json, Null when absent
  token_data,           \* oauth: token_data of main
  find_token,           \* oauth: token_data inside notion_find_page_by_canvas_id
  valid_token,          \* the access tokens the target API accepts
  calls,                \* oauth: requests sent to the target API in this run
  environ,              \* names of the environment variables that are set
  argv                  \* command-line arguments after the script's name

srcVars == <<canvas, edits>>
envVars == <<impl, canvas, edits, schema, environ, argv>>
scanVars == <<existing_assignments, has_more, start_cursor, results, scanned,
             queries>>
loopVars == <<courses, ci, course_name, assignments, ai>>
cntVars == <<total_assignments, new_assignments, updated_assignments>>
logVars == <<reqs, fetched, failed>>
itemVars == <<the_submission, the_status>>
oauthVars == <<token_file, token_data, find_token, valid_token, calls>>
vars == <<impl, store, canvas, edits, faults, run, pc, existing_assignments, has_more,
          start_cursor, results, scanned, queries, schema, courses, ci, course_name,
          assignments, ai, total_assignments, new_assignments,
          updated_assignments, summary, reqs, fetched, failed, prev,
          the_submission, the_status, token_file, token_data, find_token,
          valid_token, calls, environ, argv>>

\* ------------------------------------------------------------ target store
\* A page is [id |-> page id, props |-> property name -> value].
AllFields == {"Assignment Name", "Course", "Due Date", "Status", "Points",
              "Canvas URL", "Canvas ID", "Description"}

\* page.get('properties', {}).get('Canvas ID', {}).get('rich_text'): the
\* text of the Canvas ID property, "" when the property is missing or empty.
CanvasIdOf(page) ==
  IF "Canvas ID" \in DOMAIN page.props THEN page.props["Canvas ID"] ELSE ""

\* What the scan records of a page request: the cursor it carried and what
\* the response said about further pages.
Answered(cursor, data) ==
  [cursor |-> cursor, ok |-> TRUE, has_more |-> data.has_more,
   next_cursor |-> data.next_cursor]
Unanswered(cursor) ==
  [cursor |-> cursor, ok |-> FALSE, has_more |-> FALSE, next_cursor |-> Null]

\* POST /databases/:id/query : one page of the database, from the cursor.
QueryPage(st, cursor) ==
  LET first == IF cursor = Null THEN 1 ELSE cursor[1]
      last  == IF first + PageSize - 1 < Len(st) THEN first + PageSize - 1 ELSE Len(st)
  IN [results     |-> SubSeq(st, first, last),
      has_more    |-> last < Len(st),
      next_cursor |-> IF last < Len(st) THEN <<last + 1>> ELSE Null]

\* POST /pages : the store appends a page and assigns its id.
StoreCreate(st, props) == Append(st, [id |-> Len(st) + 1, props |-> props])

\* The database takes a write only when every property sent is one it
\* declares; otherwise the call gets a non-success response.
Accepts(props) == DOMAIN props \subseteq schema

\* PATCH /pages/:id : the properties sent overwrite those of the page.
StoreUpdate(st, page_id, props) ==
  [i \in 1..Len(st) |->
     IF st[i].id = page_id
     THEN [st[i] EXCEPT !.props =
             [k \in DOMAIN st[i].props \cup DOMAIN props |->
                IF k \in DOMAIN props THEN props[k] ELSE st[i].props[k]]]
     ELSE st[i]]

\* ------------------------------------------------------------ the source
\* The assignment object Canvas lists for item i.
Assignment(i) ==
  [id |-> i, name |-> canvas[i].name, due_at |-> canvas[i].due_at,
   points_possible |-> Points(i), html_url |-> "https://canvas/" \o str(i),
   description |-> canvas[i].description,
   course_id |-> CHOOSE c \in 1..Len(CourseItems) :
                   \E k \in 1..Len(CourseItems[c]) : CourseItems[c][k] = i,
   has_submitted_submissions |->
     Get(canvas[i].submission, "workflow_state", "") = "submitted"]

\* GET /courses/:id/assignments : the items of course c, in order.
CanvasAssignments(c) ==
  [k \in 1..Len(CourseItems[c]) |-> Assignment(CourseItems[c][k])]

\* The submission objects the items of the source carry in a run.
Unsubmitted == [workflow_state |-> "unsubmitted", submitted_at |-> None, late |-> FALSE]
Submitted == [workflow_state |-> "submitted", submitted_at |-> "t1", late |-> FALSE]
RunSignals == {Unsubmitted, Submitted}
InitSubmission(i) == IF i = 3 THEN Submitted ELSE Unsubmitted

\* The responses n consecutive calls can get (TRUE: success), within the
\* number of non-success responses left.
Responses(n) ==
  {r \in [1..n -> BOOLEAN] : Cardinality({k \in 1..n : ~r[k]}) <= MaxFaults - faults}
NFaults(r) == Cardinality({k \in DOMAIN r : ~r[k]})

\* --------------------------------------------- canvas_notion_sync.py: pure
\* format_date_for_notion: 'Z' becomes '+00:00', the rest is kept.
format_date_for_notion(date_str) ==
  IF date_str = NoDue THEN Null
  ELSE <<date_str[1], IF date_str[2] = "Z" THEN "+00:00" ELSE date_str[2]>>

\* A resolver that tests the late flag before the pending_review state.
late_before_pending_review(submission) ==
  IF submission = NoSubmission \/ DOMAIN submission = {} THEN "Not Started"
  ELSE LET workflow_state == Get(submission, "workflow_state", "")
           submitted_at   == Get(submission, "submitted_at", None)
       IN IF submitted_at \notin {None, ""} /\ workflow_state = "submitted"
            THEN "Completed"
          ELSE IF Get(submission, "late", FALSE)
            THEN "Late Submission"
          ELSE IF workflow_state = "pending_review"
            THEN "Submitted - Pending Review"
          ELSE "In Progress"

\* A resolver without the default for a missing submission.
absent_in_progress(submission) == "In Progress"

\* determine_assignment_status: the first matching rule wins.
determine_assignment_status(submission) ==
  IF submission = NoSubmission \/ DOMAIN submission = {} THEN "Not Started"
  ELSE LET workflow_state == Get(submission, "workflow_state", "")
           submitted_at   == Get(submission, "submitted_at", None)
       IN IF submitted_at \notin {None, ""} /\ workflow_state = "submitted"
            THEN "Completed"
          ELSE IF workflow_state = "pending_review"
            THEN "Submitted - Pending Review"
          ELSE IF Get(submission, "late", FALSE)
            THEN "Late Submission"
          ELSE "In Progress"

\* A description passed on whole.
Untruncated(text) == text

\* Notion's limit on a text property, as the script applies it.
DescriptionLimit == 2000
Truncate(text) ==
  SubSeq(text, 1, IF Len(text) < DescriptionLimit THEN Len(text) ELSE DescriptionLimit)

\* assignment_data of sync_assignments.
AssignmentData(assignment, name, submission) ==
  [id |-> assignment.id, name |-> assignment.name, course_name |-> name,
   due_date |-> format_date_for_notion(assignment.due_at),
   status |-> determine_assignment_status(submission),
   points_possible |-> assignment.points_possible,
   html_url |-> assignment.html_url,
   description |-> assignment.description]

\* page_data["properties"] of create_notion_page.
create_notion_page_props(assignment_data) ==
  [k \in AllFields |->
     CASE k = "Assignment Name" -> assignment_data.name
       [] k = "Course"          -> assignment_data.course_name
       [] k = "Due Date"        -> assignment_data.due_date
       [] k = "Status"          -> assignment_data.status
       [] k = "Points"          -> assignment_data.points_possible
       [] k = "Canvas URL"      -> assignment_data.html_url
       [] k = "Canvas ID"       -> str(assignment_data.id)
       [] k = "Description"     ->
            IF assignment_data.description # <<>>
            THEN Truncate(assignment_data.description) ELSE <<>>]

\* An update that leaves the Due Date out when the item has none.
update_skip_missing_due(assignment_data) ==
  [k \in (IF assignment_data.due_date = Null THEN {"Status"}
          ELSE {"Status", "Due Date"}) |->
     IF k = "Status" THEN assignment_data.status ELSE assignment_data.due_date]

\* update_data["properties"] of update_notion_page.
update_notion_page_props(assignment_data) ==
  [k \in {"Status", "Due Date"} |->
     IF k = "Status" THEN assignment_data.status ELSE assignment_data.due_date]

\* A membership test that never finds the item.
never_in_index(canvas_id, index) == FALSE

\* `canvas_id in existing_assignments` (sync_assignments) and
\* `canvas_id in notion_map` (upsert_assignment).
in_index(canvas_id, index) == canvas_id \in DOMAIN index

\* An indexer that keeps only the first page of each response.
IndexFirstPage(index, pages) ==
  IF pages = <<>> \/ CanvasIdOf(Head(pages)) = "" THEN index
  ELSE (CanvasIdOf(Head(pages)) :> Head(pages).id) @@ index

\* An indexer that keeps the first page it saw for a Canvas ID.
RECURSIVE IndexKeepFirst(_, _)
IndexKeepFirst(index, pages) ==
  IF pages = <<>> THEN index
  ELSE LET page == Head(pages)
           canvas_id == CanvasIdOf(page)
       IN IndexKeepFirst(IF canvas_id # "" THEN index @@ (canvas_id :> page.id)
                         ELSE index,
                         Tail(pages))

\* existing_assignments[canvas_id] = page['id'] for every page of a response.
RECURSIVE IndexPages(_, _)
IndexPages(index, pages) ==
  IF pages = <<>> THEN index
  ELSE LET page == Head(pages)
           canvas_id == CanvasIdOf(page)
       IN IndexPages(IF canvas_id # "" THEN (canvas_id :> page.id) @@ index
                     ELSE index,
                     Tail(pages))

\* ------------------------------------------------------------------- Init
\* A page some earlier run created for item i, before the source changed.
OldPage(i) ==
  [k \in AllFields |->
     CASE k = "Assignment Name" -> "hw" \o str(i) \o "-v0"
       [] k = "Course"          -> CourseNames[1]
       [] k = "Due Date"        -> Null
       [] k = "Status"          -> "Not Started"
       [] k = "Points"          -> Null
       [] k = "Canvas URL"      -> "https://canvas/" \o str(i)
       [] k = "Canvas ID"       -> str(i)
       [] k = "Description"     -> <<>>]
\* A page typed in by hand: it has no Canvas ID.
ManualPage == [OldPage(1) EXCEPT !["Canvas ID"] = "", !["Assignment Name"] = "note"]

\* The property sets the target stores start from: at most one page per
\* Canvas ID.
InitStores ==
  {<<>>, <<OldPage(1)>>, <<ManualPage, OldPage(1), OldPage(3)>>}

\* The property names the database may declare.
SchemaChoices == {AllFields, AllFields \ {"Points", "Description", "Course"}}

WithIds(propsSeq) == [k \in 1..Len(propsSeq) |-> [id |-> k, props |-> propsSeq[k]]]

\* The environment variables each script requires: required_vars of
\* canvas_notion_sync.main and the tests at the head of the other mains
\* (Canvas_Notion.py has its settings written in the file).
Required(script) ==
  CASE script = "sync"  -> {"CANVAS_API_URL", "CANVAS_TOKEN", "NOTION_TOKEN",
                            "NOTION_DATABASE_ID"}
    [] script = "c2n"   -> {"CANVAS_API_TOKEN", "NOTION_TOKEN", "NOTION_DATABASE_ID"}
    [] script = "oauth" -> {"CANVAS_API_TOKEN", "NOTION_CLIENT_ID",
                            "NOTION_CLIENT_SECRET", "NOTION_DATABASE_ID"}
    [] OTHER            -> {}
\* Every required variable is set and no flag is given.
Configured == environ = Required(impl) /\ argv = <<>>

\* The scripts with a fixed integration token keep no token state.
NoTokens ==
  /\ token_file = Null /\ token_data = Null /\ find_token = Null
  /\ valid_token = {} /\ calls = <<>>

NoLocals ==
  /\ existing_assignments = <<>> /\ has_more = FALSE /\ start_cursor = Null
  /\ results = <<>> /\ scanned = 0 /\ queries = <<>>
  /\ courses = <<>> /\ ci = 0 /\ course_name = "" /\ assignments = <<>> /\ ai = 0
  /\ total_assignments = 0 /\ new_assignments = 0 /\ updated_assignments = 0
  /\ summary = <<>> /\ reqs = <<>> /\ fetched = <<>> /\ failed = {}
  /\ prev = [completed |-> FALSE, killed |-> FALSE, failed |-> {},
             unchanged |-> FALSE, edits |-> 0]

Init ==
  /\ impl \in {"sync", "cn", "c2n"}
  /\ store \in {WithIds(ps) : ps \in InitStores}
  /\ canvas = [i \in ItemIds |-> [name |-> InitName(i), due_at |-> InitDue(i),
                                   description |-> Description(i),
                                   submission |-> InitSubmission(i)]]
  /\ edits = 0 /\ faults = 0 /\ run = 0 /\ pc = "idle"
  /\ schema \in IF impl = "cn" THEN SchemaChoices ELSE {AllFields}
  /\ NoLocals /\ NoTokens /\ Configured
  /\ the_submission = NoSubmission /\ the_status = ""

\* An edit of the source between two runs: an item is renamed, its due date
\* is set or cleared, or its submission changes.
SourceEdit ==
  /\ pc \in {"done", "aborted"} /\ run < MaxRuns /\ edits < MaxEdits
  /\ \E i \in ItemIds :
        \/ canvas' = [canvas EXCEPT ![i].name = Renamed(i)]
        \/ \E d \in SrcDue \ {canvas[i].due_at} :
              canvas' = [canvas EXCEPT ![i].due_at = d]
        \/ \E sub \in RunSignals \ {canvas[i].submission} :
              canvas' = [canvas EXCEPT ![i].submission = sub]
  /\ edits' = edits + 1
  /\ UNCHANGED <<impl, store, faults, run, pc, schema, scanVars, loopVars, cntVars,
                 summary, logVars, prev, itemVars, oauthVars, environ, argv>>

\* ------------------------------------------- canvas_notion_sync.py: steps
\* Where the loops of sync_assignments go after the item at index k of the
\* list items of the course at index c (k = 0: before the first item).
AfterItem(c, k, items, nCourses) ==
  IF k < Len(items) THEN [pc |-> "item", ci |-> c, ai |-> k + 1]
  ELSE IF c < nCourses THEN [pc |-> "course", ci |-> c + 1, ai |-> 0]
  ELSE [pc |-> "report", ci |-> c, ai |-> 0]

\* What the next run's start records of the run that just ended.
EndOfRun ==
  [completed |-> pc = "done", killed |-> pc = "killed", failed |-> failed,
   unchanged |-> edits = prev.edits, edits |-> edits]

\* A start of sync_assignments that keeps the dictionary of the run before.
sync_begin_keeps_index ==
  /\ impl = "sync" /\ pc \in {"idle", "done", "aborted", "killed"} /\ run < MaxRuns
  /\ run' = run + 1
  /\ pc' = "scan"
  /\ has_more' = TRUE /\ start_cursor' = Null
  /\ results' = <<>> /\ scanned' = 0 /\ queries' = <<>>
  /\ courses' = <<>> /\ ci' = 0 /\ course_name' = "" /\ assignments' = <<>> /\ ai' = 0
  /\ total_assignments' = 0 /\ new_assignments' = 0 /\ updated_assignments' = 0
  /\ summary' = <<>> /\ reqs' = <<>> /\ fetched' = <<>> /\ failed' = {}
  /\ prev' = EndOfRun
  /\ the_submission' = NoSubmission /\ the_status' = ""
  /\ UNCHANGED <<envVars, store, faults, oauthVars, existing_assignments>>

sync_assignments_begin ==
  /\ impl = "sync" /\ pc \in {"idle", "done", "aborted", "killed"} /\ run < MaxRuns
  /\ run' = run + 1
  /\ pc' = "scan"
  /\ existing_assignments' = <<>> /\ has_more' = TRUE /\ start_cursor' = Null
  /\ results' = <<>> /\ scanned' = 0 /\ queries' = <<>>
  /\ courses' = <<>> /\ ci' = 0 /\ course_name' = "" /\ assignments' = <<>> /\ ai' = 0
  /\ total_assignments' = 0 /\ new_assignments' = 0 /\ updated_assignments' = 0
  /\ summary' = <<>> /\ reqs' = <<>> /\ fetched' = <<>> /\ failed' = {}
  /\ prev' = EndOfRun
  /\ the_submission' = NoSubmission /\ the_status' = ""
  /\ UNCHANGED <<envVars, store, faults, oauthVars>>

\* A scan loop that never puts the cursor it was given into its request.
scan_without_cursor ==
  /\ impl = "sync" /\ pc = "scan" /\ has_more /\ scanned < MaxScanLen
  /\ LET data == QueryPage(store, Null)
     IN /\ existing_assignments' = IndexPages(existing_assignments, data.results)
        /\ has_more' = data.has_more
        /\ start_cursor' = data.next_cursor
        /\ scanned' = scanned + 1
        /\ queries' = Append(queries, Answered(Null, data))
        /\ pc' = IF data.has_more THEN "scan" ELSE "courses"
  /\ UNCHANGED <<envVars, store, faults, run, results, loopVars, cntVars,
                 summary, logVars, prev, itemVars, oauthVars>>

\* One iteration of the while loop of get_existing_notion_assignments.
get_existing_notion_assignments ==
  /\ impl = "sync" /\ pc = "scan" /\ has_more
  /\ \E r \in Responses(1) :
        /\ faults' = faults + NFaults(r)
        /\ IF r[1]
           THEN LET data == QueryPage(store, start_cursor)
                IN /\ existing_assignments' = IndexPages(existing_assignments, data.results)
                   /\ has_more' = data.has_more
                   /\ start_cursor' = data.next_cursor
                   /\ scanned' = scanned + 1
                   /\ queries' = Append(queries, Answered(start_cursor, data))
                   /\ pc' = IF data.has_more THEN "scan" ELSE "courses"
                   /\ UNCHANGED failed
           ELSE \* except RequestException: break
                /\ pc' = "courses"
                /\ failed' = failed \cup {"query"}
                /\ queries' = Append(queries, Unanswered(start_cursor))
                /\ UNCHANGED <<existing_assignments, has_more, start_cursor, scanned>>
  /\ UNCHANGED <<envVars, store, run, results, loopVars, cntVars,
                 summary, reqs, fetched>>
  /\ UNCHANGED <<prev, itemVars, oauthVars>>

\* get_canvas_courses and the counters' initialisation.
get_canvas_courses ==
  /\ impl = "sync" /\ pc = "courses"
  /\ \E r \in Responses(1) :
        /\ faults' = faults + NFaults(r)
        /\ courses' = IF r[1] THEN [k \in 1..Len(CourseIds) |-> Course(CourseIds[k])]
                      ELSE <<>>
        /\ failed' = IF r[1] THEN failed ELSE failed \cup {"courses"}
  /\ total_assignments' = 0 /\ new_assignments' = 0 /\ updated_assignments' = 0
  /\ IF courses' = <<>> THEN pc' = "report" /\ ci' = 0 ELSE pc' = "course" /\ ci' = 1
  /\ UNCHANGED <<envVars, store, run, scanVars, course_name,
                 assignments, ai, summary, reqs, fetched>>
  /\ UNCHANGED <<prev, itemVars, oauthVars>>

\* The head of the course loop: get_canvas_assignments(course_id).
get_canvas_assignments ==
  /\ impl = "sync" /\ pc = "course"
  /\ LET course == courses[ci] IN
     \E r \in Responses(1) :
        /\ faults' = faults + NFaults(r)
        /\ course_name' = course.name
        /\ assignments' = IF r[1] THEN CanvasAssignments(course.id) ELSE <<>>
        /\ failed' = IF r[1] THEN failed ELSE failed \cup {"list"}
        /\ fetched' = Append(fetched, [course_id |-> course.id, ok |-> r[1]])
        /\ LET next == AfterItem(ci, 0, assignments', Len(courses))
           IN pc' = next.pc /\ ci' = next.ci /\ ai' = next.ai
  /\ UNCHANGED <<envVars, store, run, scanVars, courses, cntVars,
                 summary, reqs>>
  /\ UNCHANGED <<prev, itemVars, oauthVars>>

\* The body of the item loop of sync_assignments.
sync_item ==
  /\ impl = "sync" /\ pc = "item"
  /\ \E r \in Responses(2) :
       LET assignment == assignments[ai]
           \* get_assignment_submission: the signal, or None on a failure
           sub == IF r[1] THEN canvas[assignment.id].submission ELSE NoSubmission
           assignment_data == AssignmentData(assignment, course_name, sub)
           canvas_id == str(assignment.id)
           isUpdate == in_index(canvas_id, existing_assignments)
           page_id == IF isUpdate THEN <<existing_assignments[canvas_id]>> ELSE Null
           props == IF isUpdate THEN update_notion_page_props(assignment_data)
                    ELSE create_notion_page_props(assignment_data)
           ok == r[2] /\ Accepts(props)
       IN /\ faults' = faults + NFaults(r)
          /\ total_assignments' = total_assignments + 1
          /\ reqs' = Append(reqs, [op |-> IF isUpdate THEN "update" ELSE "create",
                                   page_id |-> page_id, item |-> assignment.id,
                                   data |-> assignment_data, ok |-> ok])
          /\ the_submission' = sub /\ the_status' = assignment_data.status
          /\ failed' = failed \cup (IF r[1] THEN {} ELSE {"submission"})
                               \cup (IF ok THEN {} ELSE {"write"})
          /\ IF isUpdate
             THEN /\ store' = IF ok THEN StoreUpdate(store, page_id[1], props) ELSE store
                  /\ updated_assignments' = updated_assignments + (IF ok THEN 1 ELSE 0)
                  /\ UNCHANGED new_assignments
             ELSE /\ store' = IF ok THEN StoreCreate(store, props) ELSE store
                  /\ new_assignments' = new_assignments + (IF ok THEN 1 ELSE 0)
                  /\ UNCHANGED updated_assignments
  /\ LET next == AfterItem(ci, ai, assignments, Len(courses))
     IN pc' = next.pc /\ ci' = next.ci /\ ai' = next.ai
  /\ UNCHANGED <<envVars, run, scanVars, courses, course_name,
                 assignments, summary, fetched>>
  /\ UNCHANGED <<prev, oauthVars>>

\* The closing prints of sync_assignments: the run's summary.
sync_report ==
  /\ impl = "sync" /\ pc = "report"
  /\ summary' = [total |-> total_assignments, created |-> new_assignments,
                 updated |-> updated_assignments]
  /\ pc' = "done"
  /\ UNCHANGED <<envVars, store, faults, run, scanVars, loopVars, cntVars,
                 logVars>>
  /\ UNCHANGED <<prev, itemVars, oauthVars>>

\* ------------------------------------------------ Canvas_Notion.py: steps
\* COURSE_IDS of Canvas_Notion.py, CANVAS_COURSE_IDS of canvas_to_notion.py.
COURSE_IDS == CourseIds

\* A payload that puts the item's name where its Canvas ID belongs.
payload_with_other_id(assignment, name, sch) ==
  [k \in sch \cap {"Assignment Name", "Course", "Due Date", "Status",
                    "Canvas URL", "Canvas ID"} |->
     CASE k = "Assignment Name" -> assignment.name
       [] k = "Course"          -> name
       [] k = "Due Date"        -> IF assignment.due_at # NoDue THEN assignment.due_at
                                   ELSE Null
       [] k = "Status"          -> "Pending"
       [] k = "Canvas URL"      -> assignment.html_url
       [] k = "Canvas ID"       -> assignment.name]

build_payload(assignment, name, sch) ==
  LET canvas_id == str(assignment.id)
      due_date == assignment.due_at
      status == IF assignment.has_submitted_submissions THEN "Completed" ELSE "Pending"
  IN [k \in sch \cap {"Assignment Name", "Course", "Due Date", "Status",
                       "Canvas URL", "Canvas ID"} |->
        CASE k = "Assignment Name" -> assignment.name
          [] k = "Course"          -> name
          [] k = "Due Date"        -> IF due_date # NoDue THEN due_date ELSE Null
          [] k = "Status"          -> status
          [] k = "Canvas URL"      -> assignment.html_url
          [] k = "Canvas ID"       -> canvas_id]

cn_main_begin ==
  /\ impl = "cn" /\ pc \in {"idle", "done", "aborted", "killed"} /\ run < MaxRuns
  /\ run' = run + 1
  /\ pc' = "schema"
  /\ existing_assignments' = <<>> /\ has_more' = FALSE /\ start_cursor' = Null
  /\ results' = <<>> /\ scanned' = 0 /\ queries' = <<>>
  /\ courses' = <<>> /\ ci' = 0 /\ course_name' = "" /\ assignments' = <<>> /\ ai' = 0
  /\ summary' = <<>> /\ reqs' = <<>> /\ fetched' = <<>> /\ failed' = {}
  /\ prev' = EndOfRun
  /\ the_submission' = NoSubmission /\ the_status' = ""
  /\ UNCHANGED <<envVars, store, faults, cntVars, oauthVars>>

\* get_database_schema, and the initialisation of get_notion_assignments.
get_database_schema ==
  /\ impl = "cn" /\ pc = "schema"
  /\ \E r \in Responses(1) :
        /\ faults' = faults + NFaults(r)
        /\ IF r[1]
           THEN /\ pc' = "scan" /\ has_more' = TRUE /\ start_cursor' = Null
                /\ UNCHANGED failed
           ELSE \* raise Exception
                /\ pc' = "aborted" /\ failed' = failed \cup {"schema"}
                /\ UNCHANGED <<has_more, start_cursor>>
  /\ UNCHANGED <<envVars, store, run, existing_assignments, results, scanned, queries,
                 loopVars, cntVars, summary, reqs, fetched>>
  /\ UNCHANGED <<prev, itemVars, oauthVars>>

\* One iteration of the while loop of get_notion_assignments; the iteration
\* that ends the loop also builds notion_map from results.
get_notion_assignments ==
  /\ impl = "cn" /\ pc = "scan" /\ has_more
  /\ \E r \in Responses(1) :
        /\ faults' = faults + NFaults(r)
        /\ IF r[1]
           THEN LET data == QueryPage(store, start_cursor)
                IN /\ results' = results \o data.results
                   /\ has_more' = data.has_more
                   /\ start_cursor' = data.next_cursor
                   /\ scanned' = scanned + 1
                   /\ queries' = Append(queries, Answered(start_cursor, data))
                   /\ IF data.has_more
                      THEN pc' = "scan" /\ UNCHANGED <<existing_assignments, ci>>
                      ELSE /\ existing_assignments' = IndexPages(<<>>, results')
                           /\ pc' = "course" /\ ci' = 1
                   /\ UNCHANGED failed
           ELSE \* raise Exception
                /\ pc' = "aborted" /\ failed' = failed \cup {"query"}
                /\ queries' = Append(queries, Unanswered(start_cursor))
                /\ UNCHANGED <<existing_assignments, has_more, start_cursor,
                               results, scanned, ci>>
  /\ UNCHANGED <<envVars, store, run, courses, course_name, assignments, ai,
                 cntVars, summary, reqs, fetched>>
  /\ UNCHANGED <<prev, itemVars, oauthVars>>

\* The head of the course loop of main: the course request and the
\* assignments request.
cn_course ==
  /\ impl = "cn" /\ pc = "course"
  /\ LET course_id == COURSE_IDS[ci] IN
     \E r \in Responses(2) :
        /\ faults' = faults + NFaults(r)
        /\ course_name' = IF r[1] THEN Course(course_id).name
                          ELSE "Course " \o str(course_id)
        /\ assignments' = IF r[2] THEN CanvasAssignments(course_id) ELSE <<>>
        /\ failed' = failed \cup (IF r[1] THEN {} ELSE {"course"})
                             \cup (IF r[2] THEN {} ELSE {"list"})
        /\ fetched' = Append(fetched, [course_id |-> course_id, ok |-> r[2]])
        /\ LET next == AfterItem(ci, 0, assignments', Len(COURSE_IDS))
           IN pc' = next.pc /\ ci' = next.ci /\ ai' = next.ai
  /\ UNCHANGED <<envVars, store, run, scanVars, courses, cntVars, summary, reqs>>
  /\ UNCHANGED <<prev, itemVars, oauthVars>>

upsert_assignment ==
  /\ impl = "cn" /\ pc = "item"
  /\ \E r \in Responses(1) :
       LET assignment == assignments[ai]
           payload == build_payload(assignment, course_name, schema)
           canvas_id == str(assignment.id)
           isUpdate == in_index(canvas_id, existing_assignments)
           page_id == IF isUpdate THEN <<existing_assignments[canvas_id]>> ELSE Null
       IN /\ faults' = faults + NFaults(r)
          /\ reqs' = Append(reqs, [op |-> IF isUpdate THEN "update" ELSE "create",
                                   page_id |-> page_id, item |-> assignment.id,
                                   data |-> payload, ok |-> r[1]])
          /\ failed' = failed \cup (IF r[1] THEN {} ELSE {"write"})
          /\ store' = IF ~r[1] THEN store
                      ELSE IF isUpdate THEN StoreUpdate(store, page_id[1], payload)
                      ELSE StoreCreate(store, payload)
  /\ LET next == AfterItem(ci, ai, assignments, Len(COURSE_IDS))
     IN pc' = next.pc /\ ci' = next.ci /\ ai' = next.ai
  /\ UNCHANGED <<envVars, run, scanVars, courses, course_name, assignments,
                 cntVars, summary, fetched>>
  /\ UNCHANGED <<prev, itemVars, oauthVars>>

\* print("Sync complete.")
cn_complete ==
  /\ impl = "cn" /\ pc = "report"
  /\ pc' = "done"
  /\ UNCHANGED <<envVars, store, faults, run, scanVars, loopVars, cntVars,
                 summary, logVars>>
  /\ UNCHANGED <<prev, itemVars, oauthVars>>

\* ---------------------------------------------- canvas_to_notion.py: steps
\* .date().isoformat() of the parsed timestamp: the date part alone.
DateOnly(due_date) == <<due_date[1]>>

c2n_due(assignment) ==
  IF assignment.due_at # NoDue THEN DateOnly(assignment.due_at) ELSE <<"{}">>

\* data["properties"] of notion_create_page.
notion_create_page_props(assignment) ==
  [k \in {"Assignment Name", "Course", "Due Date", "Status", "Canvas URL",
          "Canvas ID"} |->
     CASE k = "Assignment Name" -> assignment.name
       [] k = "Course"          -> str(assignment.course_id)
       [] k = "Due Date"        -> c2n_due(assignment)
       [] k = "Status"          -> "Pending"
       [] k = "Canvas URL"      -> assignment.html_url
       [] k = "Canvas ID"       -> str(assignment.id)]

\* data["properties"] of notion_update_page.
notion_update_page_props(assignment) ==
  [k \in {"Assignment Name", "Course", "Due Date", "Canvas URL"} |->
     notion_create_page_props(assignment)[k]]

\* notion_find_page_by_canvas_id: the first page the filtered query returns,
\* as an optional page id.
notion_find_page_by_canvas_id(canvas_id) ==
  LET hits == {k \in 1..Len(store) : CanvasIdOf(store[k]) = str(canvas_id)}
  IN IF hits = {} THEN Null
     ELSE <<store[CHOOSE k \in hits : \A j \in hits : k <= j].id>>

\* main without its test of the environment variables.
c2n_main_unchecked ==
  /\ impl = "c2n" /\ pc \in {"idle", "done", "aborted"} /\ run < MaxRuns
  /\ run' = run + 1
  /\ pc' = "course" /\ ci' = 1
  /\ courses' = <<>> /\ course_name' = "" /\ assignments' = <<>> /\ ai' = 0
  /\ summary' = <<>> /\ reqs' = <<>> /\ fetched' = <<>> /\ failed' = {}
  /\ prev' = EndOfRun
  /\ the_submission' = NoSubmission /\ the_status' = ""
  /\ UNCHANGED <<envVars, store, faults, scanVars, cntVars, oauthVars>>

c2n_main_begin ==
  /\ impl = "c2n" /\ pc \in {"idle", "done", "aborted"} /\ run < MaxRuns
  /\ run' = run + 1
  /\ IF Required("c2n") \subseteq environ
     THEN pc' = "course" /\ ci' = 1
     ELSE \* raise Exception("Missing required environment variables.")
          pc' = "aborted" /\ ci' = 0
  /\ courses' = <<>> /\ course_name' = "" /\ assignments' = <<>> /\ ai' = 0
  /\ summary' = <<>> /\ reqs' = <<>> /\ fetched' = <<>> /\ failed' = {}
  /\ prev' = EndOfRun
  /\ the_submission' = NoSubmission /\ the_status' = ""
  /\ UNCHANGED <<envVars, store, faults, scanVars, cntVars, oauthVars>>

\* The head of the course loop of main: get_canvas_assignments(course_id).
c2n_get_canvas_assignments ==
  /\ impl = "c2n" /\ pc = "course"
  /\ LET course_id == COURSE_IDS[ci] IN
     \E r \in Responses(1) :
        /\ faults' = faults + NFaults(r)
        /\ fetched' = Append(fetched, [course_id |-> course_id, ok |-> r[1]])
        /\ IF r[1]
           THEN /\ assignments' = CanvasAssignments(course_id)
                /\ LET next == AfterItem(ci, 0, assignments', Len(COURSE_IDS))
                   IN /\ pc' = IF next.pc = "report" THEN "done" ELSE next.pc
                      /\ ci' = next.ci /\ ai' = next.ai
                /\ UNCHANGED failed
           ELSE \* r.raise_for_status()
                /\ pc' = "aborted" /\ failed' = failed \cup {"list"}
                /\ UNCHANGED <<assignments, ci, ai>>
  /\ UNCHANGED <<envVars, store, run, scanVars, courses, course_name, cntVars,
                 summary, reqs>>
  /\ UNCHANGED <<prev, itemVars, oauthVars>>

\* The body of the item loop of main: the lookup, then the update or create.
c2n_item ==
  /\ impl = "c2n" /\ pc = "item"
  /\ \E r \in {q \in Responses(2) : ~q[1] => q[2]} :
       LET assignment == assignments[ai]
           existing_page == notion_find_page_by_canvas_id(assignment.id)
           isUpdate == existing_page # Null
           props == IF isUpdate THEN notion_update_page_props(assignment)
                    ELSE notion_create_page_props(assignment)
           next == AfterItem(ci, ai, assignments, Len(COURSE_IDS))
       IN /\ faults' = faults + NFaults(r)
          /\ IF ~r[1]
             THEN \* the lookup's r.raise_for_status()
                  /\ pc' = "aborted" /\ failed' = failed \cup {"query"}
                  /\ UNCHANGED <<store, reqs, ci, ai>>
             ELSE /\ reqs' = Append(reqs,
                                    [op |-> IF isUpdate THEN "update" ELSE "create",
                                     page_id |-> existing_page, item |-> assignment.id,
                                     data |-> props, ok |-> r[2]])
                  /\ IF r[2]
                     THEN /\ store' = IF isUpdate
                                      THEN StoreUpdate(store, existing_page[1], props)
                                      ELSE StoreCreate(store, props)
                          /\ pc' = IF next.pc = "report" THEN "done" ELSE next.pc
                          /\ ci' = next.ci /\ ai' = next.ai
                          /\ UNCHANGED failed
                     ELSE \* the write's r.raise_for_status()
                          /\ pc' = "aborted" /\ failed' = failed \cup {"write"}
                          /\ UNCHANGED <<store, ci, ai>>
  /\ UNCHANGED <<envVars, run, scanVars, courses, course_name, assignments,
                 cntVars, summary, fetched>>
  /\ UNCHANGED <<prev, itemVars, oauthVars>>

\* ---------------------------------------- canvas_to_notion_oauth.py: steps
\* The token object the OAuth endpoint issues as its n-th.
Token(n) == [access_token |-> n, refresh_token |-> n]

\* The statuses the target API can answer a request carrying the access
\* token with: 401 when it does not accept the token.
TargetStatuses(access_token) ==
  IF access_token \notin valid_token THEN {401}
  ELSE {200} \cup (IF faults < MaxFaults THEN {500} ELSE {})
\* The statuses of the OAuth token endpoint.
TokenStatuses == {200} \cup (IF faults < MaxFaults THEN {500} ELSE {})

\* data["properties"] of notion_create_or_update, sent on create and update.
notion_create_or_update_props(assignment) == notion_create_page_props(assignment)

\* The access token in use expires (an event of the target service).
TokenExpires ==
  /\ impl = "oauth" /\ pc \notin {"idle", "done", "aborted"}
  /\ valid_token # {} /\ \A t \in valid_token : t < MaxTokens
  /\ valid_token' = {}
  /\ UNCHANGED <<envVars, store, faults, run, pc, scanVars, loopVars, cntVars,
                 summary, logVars, prev, itemVars, token_file, token_data,
                 find_token, calls>>

oauth_main_begin ==
  /\ impl = "oauth" /\ pc \in {"idle", "done", "aborted"} /\ run < MaxRuns
  /\ run' = run + 1
  /\ IF Required("oauth") \subseteq environ
     THEN pc' = "tokens"
     ELSE \* raise Exception("Missing environment variables ...")
          pc' = "aborted"
  /\ results' = <<>>
  /\ courses' = <<>> /\ ci' = 0 /\ course_name' = "" /\ assignments' = <<>> /\ ai' = 0
  /\ summary' = <<>> /\ reqs' = <<>> /\ fetched' = <<>> /\ failed' = {}
  /\ prev' = EndOfRun
  /\ the_submission' = NoSubmission /\ the_status' = ""
  /\ token_data' = Null /\ find_token' = Null /\ calls' = <<>>
  /\ UNCHANGED <<envVars, store, faults, existing_assignments, has_more,
                 start_cursor, scanned, queries, cntVars, token_file, valid_token>>

\* get_tokens: the saved token file, or the code exchange.
get_tokens ==
  /\ impl = "oauth" /\ pc = "tokens"
  /\ IF token_file # Null
     THEN \* return json.load(f)
          token_data' = token_file[1] /\ pc' = "course" /\ ci' = 1
     ELSE \* start_oauth_flow(); server.handle_request()
          pc' = "listen" /\ UNCHANGED <<token_data, ci>>
  /\ UNCHANGED <<envVars, store, faults, run, scanVars, courses, course_name,
                 assignments, ai, cntVars, summary, logVars, prev, itemVars,
                 token_file, find_token, valid_token, calls>>

\* get_tokens after the callback: the code is exchanged for a token pair,
\* which is written to the token file and returned.
exchange_code ==
  /\ impl = "oauth" /\ pc = "listen"
  /\ \E st \in TokenStatuses :
        /\ faults' = faults + (IF st = 200 THEN 0 ELSE 1)
        /\ calls' = Append(calls, [call |-> "token", item |-> 0, token |-> 0,
                                   status |-> st, retry |-> FALSE])
        /\ IF st = 200
           THEN /\ token_data' = Token(1) /\ token_file' = <<Token(1)>>
                /\ valid_token' = {Token(1).access_token}
                /\ pc' = "course" /\ ci' = 1
                /\ UNCHANGED failed
           ELSE \* r.raise_for_status()
                /\ pc' = "aborted" /\ failed' = failed \cup {"token"}
                /\ UNCHANGED <<token_data, token_file, valid_token, ci>>
  /\ UNCHANGED <<envVars, store, run, scanVars, courses, course_name, assignments,
                 ai, cntVars, summary, reqs, fetched, prev, itemVars, find_token>>

\* Where main goes after the item at index k: the lookup of the next item.
OAuthAfterItem(c, k, items) ==
  LET next == AfterItem(c, k, items, Len(COURSE_IDS))
  IN [next EXCEPT !.pc = IF @ = "report" THEN "done"
                         ELSE IF @ = "item" THEN "find" ELSE @]

\* The head of the course loop of main: get_canvas_assignments(course_id).
oauth_get_canvas_assignments ==
  /\ impl = "oauth" /\ pc = "course"
  /\ LET course_id == COURSE_IDS[ci] IN
     \E r \in Responses(1) :
        /\ faults' = faults + NFaults(r)
        /\ fetched' = Append(fetched, [course_id |-> course_id, ok |-> r[1]])
        /\ IF r[1]
           THEN /\ assignments' = CanvasAssignments(course_id)
                /\ LET next == OAuthAfterItem(ci, 0, assignments')
                   IN pc' = next.pc /\ ci' = next.ci /\ ai' = next.ai
                /\ UNCHANGED failed
           ELSE \* r.raise_for_status()
                /\ pc' = "aborted" /\ failed' = failed \cup {"list"}
                /\ UNCHANGED <<assignments, ci, ai>>
  /\ UNCHANGED <<envVars, store, run, scanVars, courses, course_name, cntVars,
                 summary, reqs, prev, itemVars, oauthVars>>

\* notion_find_page_by_canvas_id(canvas_id, token_data): the first request.
oauth_find ==
  /\ impl = "oauth" /\ pc = "find"
  /\ LET assignment == assignments[ai] IN
     \E st \in TargetStatuses(token_data.access_token) :
        /\ faults' = faults + (IF st = 500 THEN 1 ELSE 0)
        /\ find_token' = token_data
        /\ calls' = Append(calls, [call |-> "find", item |-> assignment.id,
                                   token |-> token_data.access_token,
                                   status |-> st, retry |-> FALSE])
        /\ CASE st = 200 -> /\ results' = notion_find_page_by_canvas_id(assignment.id)
                            /\ pc' = "write"
                            /\ UNCHANGED failed
             [] st = 401 -> /\ pc' = "refresh"
                            /\ UNCHANGED <<results, failed>>
             [] OTHER    -> \* r.raise_for_status()
                            /\ pc' = "aborted" /\ failed' = failed \cup {"query"}
                            /\ UNCHANGED results
  /\ UNCHANGED <<envVars, store, run, existing_assignments, has_more, start_cursor,
                 scanned, queries, loopVars, cntVars, summary, reqs, fetched, prev,
                 itemVars, token_file, token_data, valid_token>>

\* A refresh that returns the new pair without writing the token file.
refresh_without_save ==
  /\ impl = "oauth" /\ pc = "refresh"
  /\ LET new == Token(find_token.refresh_token + 1)
     IN /\ calls' = Append(calls, [call |-> "refresh", item |-> assignments[ai].id,
                                   token |-> find_token.refresh_token,
                                   status |-> 200, retry |-> FALSE])
        /\ find_token' = new
        /\ valid_token' = {new.access_token}
        /\ pc' = "retry"
  /\ UNCHANGED <<envVars, store, faults, run, scanVars, loopVars, cntVars, summary,
                 reqs, fetched, failed, prev, itemVars, token_data, token_file>>

\* refresh_token(token_data['refresh_token']), called on the lookup's 401.
refresh_token ==
  /\ impl = "oauth" /\ pc = "refresh"
  /\ \E st \in TokenStatuses :
        /\ faults' = faults + (IF st = 200 THEN 0 ELSE 1)
        /\ calls' = Append(calls, [call |-> "refresh", item |-> assignments[ai].id,
                                   token |-> find_token.refresh_token,
                                   status |-> st, retry |-> FALSE])
        /\ IF st = 200
           THEN LET new == Token(find_token.refresh_token + 1)
                IN /\ token_file' = <<new>>
                   /\ find_token' = new
                   /\ valid_token' = {new.access_token}
                   /\ pc' = "retry"
                   /\ UNCHANGED failed
           ELSE \* r.raise_for_status()
                /\ pc' = "aborted" /\ failed' = failed \cup {"refresh"}
                /\ UNCHANGED <<token_file, find_token, valid_token>>
  /\ UNCHANGED <<envVars, store, run, scanVars, loopVars, cntVars, summary, reqs,
                 fetched, prev, itemVars, token_data>>

\* The lookup sent again with the refreshed token, and its raise_for_status.
oauth_find_retry ==
  /\ impl = "oauth" /\ pc = "retry"
  /\ LET assignment == assignments[ai] IN
     \E st \in TargetStatuses(find_token.access_token) :
        /\ faults' = faults + (IF st = 500 THEN 1 ELSE 0)
        /\ calls' = Append(calls, [call |-> "find", item |-> assignment.id,
                                   token |-> find_token.access_token,
                                   status |-> st, retry |-> TRUE])
        /\ IF st = 200
           THEN /\ results' = notion_find_page_by_canvas_id(assignment.id)
                /\ pc' = "write"
                /\ UNCHANGED failed
           ELSE /\ pc' = "aborted" /\ failed' = failed \cup {"query"}
                /\ UNCHANGED results
  /\ UNCHANGED <<envVars, store, run, existing_assignments, has_more, start_cursor,
                 scanned, queries, loopVars, cntVars, summary, reqs, fetched, prev,
                 itemVars, token_file, token_data, find_token, valid_token>>

\* notion_create_or_update after the lookup: the PATCH or POST, sent with
\* the headers of the token_data main passed in.
notion_create_or_update ==
  /\ impl = "oauth" /\ pc = "write"
  /\ LET assignment == assignments[ai]
         existing_page == results
         isUpdate == existing_page # Null
         data == notion_create_or_update_props(assignment)
         next == OAuthAfterItem(ci, ai, assignments)
     IN \E st \in TargetStatuses(token_data.access_token) :
          /\ faults' = faults + (IF st = 500 THEN 1 ELSE 0)
          /\ calls' = Append(calls, [call |-> IF isUpdate THEN "update" ELSE "create",
                                     item |-> assignment.id,
                                     token |-> token_data.access_token,
                                     status |-> st, retry |-> FALSE])
          /\ reqs' = Append(reqs, [op |-> IF isUpdate THEN "update" ELSE "create",
                                   page_id |-> existing_page, item |-> assignment.id,
                                   data |-> data, ok |-> st = 200])
          /\ IF st = 200
             THEN /\ store' = IF isUpdate THEN StoreUpdate(store, existing_page[1], data)
                              ELSE StoreCreate(store, data)
                  /\ pc' = next.pc /\ ci' = next.ci /\ ai' = next.ai
                  /\ UNCHANGED failed
             ELSE \* r.raise_for_status()
                  /\ pc' = "aborted" /\ failed' = failed \cup {"write"}
                  /\ UNCHANGED <<store, ci, ai>>
  /\ UNCHANGED <<envVars, run, scanVars, courses, course_name, assignments,
                 cntVars, summary, fetched, prev, itemVars, token_file,
                 token_data, find_token, valid_token>>

Next ==
  \/ SourceEdit
  \/ cn_main_begin
  \/ get_database_schema
  \/ get_notion_assignments
  \/ cn_course
  \/ upsert_assignment
  \/ cn_complete
  \/ c2n_main_begin
  \/ c2n_get_canvas_assignments
  \/ c2n_item
  \/ sync_assignments_begin
  \/ get_existing_notion_assignments
  \/ get_canvas_courses
  \/ get_canvas_assignments
  \/ sync_item
  \/ sync_report

Spec == Init /\ [][Next]_vars

\* ----------------------------------------------------- the scan, on its own
\* The full scan of the two indexed scripts, from every store of up to
\* MaxScanLen pages: the page at position k carries Canvas ID k, Canvas ID 1
\* (a duplicate) or none.
ScanPage(k, canvas_id) == [OldPage(k) EXCEPT !["Canvas ID"] = canvas_id]
ScanStores ==
  UNION {{WithIds([k \in 1..n |-> ScanPage(k, c[k])]) :
            c \in [1..n -> {"", "1", "own"}]} : n \in 0..MaxScanLen}
OwnIds(st) ==
  [k \in 1..Len(st) |->
     [st[k] EXCEPT !.props["Canvas ID"] = IF @ = "own" THEN str(k) ELSE @]]

InitScan ==
  /\ impl \in {"sync", "cn"}
  /\ store \in {OwnIds(st) : st \in ScanStores}
  /\ canvas = [i \in ItemIds |-> [name |-> InitName(i), due_at |-> InitDue(i),
                                   description |-> Description(i),
                                   submission |-> InitSubmission(i)]]
  /\ edits = 0 /\ faults = 0 /\ run = 0 /\ pc = "idle"
  /\ schema = AllFields
  /\ NoLocals /\ NoTokens /\ Configured
  /\ the_submission = NoSubmission /\ the_status = ""

NextScan ==
  \/ sync_assignments_begin
  \/ get_existing_notion_assignments
  \/ cn_main_begin
  \/ get_database_schema
  \/ get_notion_assignments

SpecScan == InitScan /\ [][NextScan]_vars

\* The scan of a script that keeps running: a loop iteration that can be
\* taken is taken.
SpecScanLive ==
  /\ InitScan /\ [][NextScan]_vars
  /\ WF_vars(get_existing_notion_assignments)
  /\ WF_vars(get_notion_assignments)

\* --------------------------------------------- the status resolver, on its own
\* Every submission object: each of the three keys the resolver reads is
\* missing or holds one of its values.
WorkflowStates == {"unsubmitted", "submitted", "pending_review", "graded"}
SubmittedAts == {None, "", "t1"}
Missing == "(missing)"
MkSignal(w, t, l) ==
  (IF w = Missing THEN <<>> ELSE [workflow_state |-> w])
  @@ (IF t = Missing THEN <<>> ELSE [submitted_at |-> t])
  @@ (IF l = Missing THEN <<>> ELSE [late |-> (l = "True")])
\* The empty object is left out: Canvas never answers with it.
Signals ==
  {MkSignal(w, t, l) : w \in WorkflowStates \cup {Missing},
                       t \in SubmittedAts \cup {Missing},
                       l \in {"True", "False", Missing}} \ {<<>>}

InitStatus ==
  /\ impl = "sync"
  /\ store = <<>>
  /\ canvas = [i \in ItemIds |-> [name |-> InitName(i), due_at |-> InitDue(i),
                                   description |-> Description(i),
                                   submission |-> InitSubmission(i)]]
  /\ edits = 0 /\ faults = 0 /\ run = 0 /\ pc = "status"
  /\ schema = AllFields
  /\ NoLocals /\ NoTokens /\ Configured
  /\ the_submission \in Signals \cup {NoSubmission} /\ the_status = ""

\* 'status': self.determine_assignment_status(submission)
resolve_status ==
  /\ pc = "status"
  /\ the_status' = determine_assignment_status(the_submission)
  /\ pc' = "resolved"
  /\ UNCHANGED <<envVars, store, faults, run, scanVars, loopVars, cntVars,
                 summary, logVars, prev, the_submission, oauthVars>>

NextStatus == resolve_status

SpecStatus == InitStatus /\ [][NextStatus]_vars

\* ------------------------------------- the item loop, over every submission
\* sync_assignments inside its item loop, after a scan and a listing that
\* succeeded: the first item of the course carries any submission object,
\* and its page is in the store or not.
InitSignal ==
  /\ impl = "sync"
  /\ store \in {WithIds(<<>>), WithIds(<<OldPage(1)>>)}
  /\ \E s \in Signals :
        canvas = [i \in ItemIds |->
                    [name |-> InitName(i), due_at |-> InitDue(i),
                     description |-> Description(i),
                     submission |-> IF i = 1 THEN s ELSE InitSubmission(i)]]
  /\ edits = 0 /\ faults = 0 /\ run = 1 /\ pc = "item"
  /\ schema = AllFields
  /\ existing_assignments = IndexPages(<<>>, store)
  /\ has_more = FALSE /\ start_cursor = Null /\ results = <<>> /\ scanned = 1
  /\ queries = <<Answered(Null, [has_more |-> FALSE, next_cursor |-> Null])>>
  /\ courses = <<Course(1)>> /\ ci = 1 /\ course_name = Course(1).name
  /\ assignments = CanvasAssignments(1) /\ ai = 1
  /\ total_assignments = 0 /\ new_assignments = 0 /\ updated_assignments = 0
  /\ summary = <<>> /\ reqs = <<>> /\ failed = {}
  /\ fetched = <<[course_id |-> 1, ok |-> TRUE]>>
  /\ prev = [completed |-> FALSE, killed |-> FALSE, failed |-> {},
             unchanged |-> FALSE, edits |-> 0]
  /\ the_submission = NoSubmission /\ the_status = ""
  /\ NoTokens /\ Configured

NextSignal ==
  \/ sync_item
  \/ sync_report

SpecSignal == InitSignal /\ [][NextSignal]_vars

\* --------------------------------------- the item loop, over mapper inputs
\* The indexed scripts inside their item loop, after a scan and a listing
\* that succeeded, over the inputs the field mapping depends on: the
\* database's schema, the length of the description and the due timestamps
\* of the two items of the course.
MapperSchemas ==
  {AllFields, AllFields \ {"Points"}, AllFields \ {"Description"},
   AllFields \ {"Due Date"}, AllFields \ {"Points", "Description", "Course"}}
\* A description of n characters.
Text(n) == [k \in 1..n |-> IF k % 2 = 0 THEN "x" ELSE "t"]
MapperDescriptions ==
  {Text(0), Text(3), Text(DescriptionLimit - 1), Text(DescriptionLimit),
   Text(DescriptionLimit + 1), Text(2 * DescriptionLimit + 1000)}
\* Due timestamps <<local hour, offset>>: 12:00 UTC written three ways, and
\* another instant.
MapperDues == {NoDue, <<12, "Z">>, <<12, "+00:00">>, <<7, "-05:00">>, <<9, "Z">>}
\* What the mapper reads of items 1 and 2: one of the three inputs varies.
MapperInputs ==
  {[schema |-> sch, description |-> Description(1), due1 |-> InitDue(1),
    due2 |-> InitDue(2)] : sch \in MapperSchemas}
  \cup {[schema |-> AllFields, description |-> t, due1 |-> InitDue(1),
          due2 |-> InitDue(2)] : t \in MapperDescriptions}
  \cup {[schema |-> AllFields, description |-> Description(1), due1 |-> d1,
          due2 |-> d2] : d1 \in MapperDues, d2 \in MapperDues}
\* The pages of a store, as a database with the given schema holds them.
InSchema(propsSeq, sch) ==
  [k \in 1..Len(propsSeq) |-> [f \in DOMAIN propsSeq[k] \cap sch |-> propsSeq[k][f]]]

InitMapper ==
  /\ impl \in {"sync", "cn"}
  /\ \E in \in MapperInputs :
        /\ schema = in.schema
        /\ canvas = [i \in ItemIds |->
                       [name |-> InitName(i),
                        due_at |-> IF i = 1 THEN in.due1
                                   ELSE IF i = 2 THEN in.due2 ELSE InitDue(i),
                        description |-> IF i = 1 THEN in.description
                                        ELSE Description(i),
                        submission |-> InitSubmission(i)]]
  /\ store \in {WithIds(InSchema(ps, schema)) : ps \in {<<>>, <<OldPage(1)>>}}
  /\ edits = 0 /\ faults = 0 /\ run = 1 /\ pc = "item"
  /\ existing_assignments = IndexPages(<<>>, store)
  /\ has_more = FALSE /\ start_cursor = Null /\ scanned = 1
  /\ queries = <<Answered(Null, [has_more |-> FALSE, next_cursor |-> Null])>>
  /\ results = IF impl = "cn" THEN store ELSE <<>>
  /\ courses = IF impl = "sync" THEN <<Course(1)>> ELSE <<>>
  /\ ci = Len(COURSE_IDS) /\ course_name = Course(1).name
  /\ assignments = CanvasAssignments(1) /\ ai = 1
  /\ total_assignments = 0 /\ new_assignments = 0 /\ updated_assignments = 0
  /\ summary = <<>> /\ reqs = <<>> /\ failed = {}
  /\ fetched = <<[course_id |-> 1, ok |-> TRUE]>>
  /\ prev = [completed |-> FALSE, killed |-> FALSE, failed |-> {},
             unchanged |-> FALSE, edits |-> 0]
  /\ the_submission = NoSubmission /\ the_status = ""
  /\ NoTokens /\ Configured

NextMapper ==
  \/ sync_item
  \/ sync_report
  \/ upsert_assignment
  \/ cn_complete

SpecMapper == InitMapper /\ [][NextMapper]_vars

\* ------------------------------- whole runs, over stores of every kind
\* The runs of the two indexing scripts from every store of up to
\* MaxIndexLen pages, each page with the Canvas ID property missing, empty,
\* or naming item 1 or item 3, so that several pages may name one item.
MaxIndexLen == 3
PageKinds == {"(missing)", "", "1", "3"}
KindPage(k, kind) ==
  IF kind = "(missing)"
  THEN [f \in AllFields \ {"Canvas ID"} |-> OldPage(k)[f]]
  ELSE [OldPage(k) EXCEPT !["Canvas ID"] = kind]
IndexStores ==
  UNION {{WithIds([k \in 1..n |-> KindPage(k, c[k])]) : c \in [1..n -> PageKinds]} :
           n \in 0..MaxIndexLen}

InitIndex ==
  /\ impl \in {"sync", "cn"}
  /\ store \in IndexStores
  /\ canvas = [i \in ItemIds |-> [name |-> InitName(i), due_at |-> InitDue(i),
                                   description |-> Description(i),
                                   submission |-> InitSubmission(i)]]
  /\ edits = 0 /\ faults = 0 /\ run = 0 /\ pc = "idle"
  /\ schema = AllFields
  /\ NoLocals /\ NoTokens /\ Configured
  /\ the_submission = NoSubmission /\ the_status = ""

NextIndex ==
  \/ cn_main_begin
  \/ get_database_schema
  \/ get_notion_assignments
  \/ cn_course
  \/ upsert_assignment
  \/ cn_complete
  \/ sync_assignments_begin
  \/ get_existing_notion_assignments
  \/ get_canvas_courses
  \/ get_canvas_assignments
  \/ sync_item
  \/ sync_report

SpecIndex == InitIndex /\ [][NextIndex]_vars

\* ----------------------------- the item loop, over listings with repeats
\* The indexed scripts inside their item loop, after a scan that succeeded:
\* the listing Canvas answered with names items 1 and 2 in any order, each
\* once or more than once.
MaxListing == 3
RepeatListings ==
  UNION {[1..n -> {1, 2}] : n \in 2..MaxListing}
InitRepeat ==
  /\ impl \in {"sync", "cn"}
  /\ store \in {WithIds(ps) : ps \in {<<>>, <<OldPage(1)>>, <<OldPage(2)>>}}
  /\ canvas = [i \in ItemIds |-> [name |-> InitName(i), due_at |-> InitDue(i),
                                   description |-> Description(i),
                                   submission |-> InitSubmission(i)]]
  /\ edits = 0 /\ faults = 0 /\ run = 1 /\ pc = "item"
  /\ schema = AllFields
  /\ existing_assignments = IndexPages(<<>>, store)
  /\ has_more = FALSE /\ start_cursor = Null /\ scanned = 1
  /\ queries = <<Answered(Null, [has_more |-> FALSE, next_cursor |-> Null])>>
  /\ results = IF impl = "cn" THEN store ELSE <<>>
  /\ courses = IF impl = "sync" THEN <<Course(1)>> ELSE <<>>
  /\ ci = Len(COURSE_IDS) /\ course_name = Course(1).name
  /\ \E listing \in RepeatListings :
        assignments = [k \in DOMAIN listing |-> Assignment(listing[k])]
  /\ ai = 1
  /\ total_assignments = 0 /\ new_assignments = 0 /\ updated_assignments = 0
  /\ summary = <<>> /\ reqs = <<>> /\ failed = {}
  /\ fetched = <<[course_id |-> 1, ok |-> TRUE]>>
  /\ prev = [completed |-> FALSE, killed |-> FALSE, failed |-> {},
             unchanged |-> FALSE, edits |-> 0]
  /\ the_submission = NoSubmission /\ the_status = ""
  /\ NoTokens /\ Configured

NextRepeat ==
  \/ sync_item
  \/ sync_report
  \/ upsert_assignment
  \/ cn_complete

SpecRepeat == InitRepeat /\ [][NextRepeat]_vars

\* ------------------------------------- the authorization-code variant
\* canvas_to_notion_oauth.py, with or without a saved token file, whose
\* access token the target API may still accept or not.
InitOAuth ==
  /\ impl = "oauth"
  /\ store \in {WithIds(ps) : ps \in InitStores}
  /\ canvas = [i \in ItemIds |-> [name |-> InitName(i), due_at |-> InitDue(i),
                                   description |-> Description(i),
                                   submission |-> InitSubmission(i)]]
  /\ edits = 0 /\ faults = 0 /\ run = 0 /\ pc = "idle"
  /\ schema = AllFields
  /\ NoLocals
  /\ the_submission = NoSubmission /\ the_status = ""
  /\ token_file \in {Null, <<Token(1)>>}
  /\ valid_token \in IF token_file = Null THEN {{}} ELSE {{}, {1}}
  /\ token_data = Null /\ find_token = Null /\ calls = <<>>
  /\ Configured

NextOAuth ==
  \/ TokenExpires
  \/ oauth_main_begin
  \/ get_tokens
  \/ exchange_code
  \/ oauth_get_canvas_assignments
  \/ oauth_find
  \/ refresh_token
  \/ oauth_find_retry
  \/ notion_create_or_update

SpecOAuth == InitOAuth /\ [][NextOAuth]_vars

\* The two scripts that build an index of the store before they write.
Indexed == impl \in {"sync", "cn"}

\* ----------------------------------------------- a run cut short from outside
\* The process of a running script is terminated between two of its steps:
\* what it sent so far stays in the store, its local state is lost with the
\* next start.
Interrupt ==
  /\ Indexed /\ pc \notin {"idle", "done", "aborted", "killed"}
  /\ pc' = "killed"
  /\ UNCHANGED <<envVars, store, faults, run, scanVars, loopVars, cntVars, summary,
                 logVars, prev, itemVars, oauthVars>>

InitRecovery == Init /\ Indexed

NextRecovery ==
  \/ Interrupt
  \/ cn_main_begin
  \/ get_database_schema
  \/ get_notion_assignments
  \/ cn_course
  \/ upsert_assignment
  \/ cn_complete
  \/ sync_assignments_begin
  \/ get_existing_notion_assignments
  \/ get_canvas_courses
  \/ get_canvas_assignments
  \/ sync_item
  \/ sync_report

SpecRecovery == InitRecovery /\ [][NextRecovery]_vars

\* ------------------------------------------------ the scripts' entry points
\* main of canvas_notion_sync.py, as written: the object is constructed
\* without a request; with --list-courses the call of list_available_courses,
\* which the class does not define, raises AttributeError; a missing variable
\* prints the instructions and returns; otherwise the read of sync.course_ids,
\* which __init__ never sets, raises AttributeError before sync_assignments.
main ==
  /\ impl = "sync" /\ pc \in {"idle", "exit", "aborted"} /\ run < MaxRuns
  /\ run' = run + 1
  /\ pc' = IF Len(argv) > 0 /\ argv[1] = "--list-courses" THEN "aborted"
           ELSE IF Required("sync") \ environ # {} THEN "exit"
           ELSE "aborted"
  /\ UNCHANGED <<envVars, store, faults, scanVars, loopVars, cntVars, summary,
                 logVars, prev, itemVars, oauthVars>>

\* The environments of a start: complete, one variable unset, or none set.
EnvChoices(script) ==
  {Required(script), {}} \cup {Required(script) \ {v} : v \in Required(script)}
ArgvChoices == {<<>>, <<"--list-courses">>}

InitMain ==
  /\ impl \in {"sync", "c2n", "oauth"}
  /\ store \in {WithIds(ps) : ps \in InitStores}
  /\ canvas = [i \in ItemIds |-> [name |-> InitName(i), due_at |-> InitDue(i),
                                   description |-> Description(i),
                                   submission |-> InitSubmission(i)]]
  /\ edits = 0 /\ faults = 0 /\ run = 0 /\ pc = "idle"
  /\ schema = AllFields
  /\ NoLocals
  /\ the_submission = NoSubmission /\ the_status = ""
  /\ token_file \in IF impl = "oauth" THEN {Null, <<Token(1)>>} ELSE {Null}
  /\ valid_token \in IF token_file = Null THEN {{}} ELSE {{}, {1}}
  /\ token_data = Null /\ find_token = Null /\ calls = <<>>
  /\ environ \in EnvChoices(impl)
  /\ argv \in ArgvChoices

NextMain ==
  \/ main
  \/ c2n_main_begin
  \/ c2n_get_canvas_assignments
  \/ c2n_item
  \/ NextOAuth

SpecMain == InitMain /\ [][NextMain]_vars

\* ================================================================ claims
CanvasIds(st) == {CanvasIdOf(st[k]) : k \in 1..Len(st)} \ {""}
PagesOf(st, canvas_id) == {k \in 1..Len(st) : CanvasIdOf(st[k]) = canvas_id}
Unique(st) == \A c \in CanvasIds(st) : Cardinality(PagesOf(st, c)) <= 1
OkCount(op) == Cardinality({k \in 1..Len(reqs) : reqs[k].op = op /\ reqs[k].ok})
FailCount == Cardinality({k \in 1..Len(reqs) : ~reqs[k].ok})

\* C1 (uniqueness): in every reachable state, starting from a store with at
\* most one page per Canvas ID, the store holds at most one page per Canvas
\* ID, whatever calls failed in the runs so far.
C1_Uniqueness == Unique(store)

\* C2 (idempotence): when the run before completed with every call
\* succeeding and the source has not changed since, the current run has
\* issued no create request.
C2_Idempotence ==
  (run >= 2 /\ prev.completed /\ prev.failed = {} /\ prev.unchanged)
    => \A k \in 1..Len(reqs) : reqs[k].op # "create"

\* C3 (mirroring): after a run of an indexed script in which every call
\* succeeded, for every item written some page carrying its Canvas ID holds
\* the name, course, due date, status and URL the mapper derived from the
\* item in this run.
MirroredFields == {"Assignment Name", "Course", "Due Date", "Status", "Canvas URL"}
Derived(data) == IF impl = "sync" THEN create_notion_page_props(data) ELSE data
C3_Mirroring ==
  (Indexed /\ pc = "done" /\ failed = {})
    => \A k \in 1..Len(reqs) :
         \E j \in PagesOf(store, str(reqs[k].item)) :
           \A f \in MirroredFields \cap DOMAIN Derived(reqs[k].data) :
             /\ f \in DOMAIN store[j].props
             /\ store[j].props[f] = Derived(reqs[k].data)[f]

\* C4 (create-or-update decision): every step that processes an item sends
\* exactly one write request, an update addressed to the page id the index
\* holds for the item's Canvas ID when it holds one and a create otherwise,
\* and moves on to the next item; no other step of the run sends a write
\* request.
C4_Decision ==
  [][Indexed =>
       IF pc = "item"
       THEN LET assignment == assignments[ai]
                canvas_id == str(assignment.id)
                sent == reqs'[Len(reqs')]
            IN /\ Len(reqs') = Len(reqs) + 1
               /\ SubSeq(reqs', 1, Len(reqs)) = reqs
               /\ sent.item = assignment.id
               /\ IF canvas_id \in DOMAIN existing_assignments
                  THEN sent.op = "update"
                       /\ sent.page_id = <<existing_assignments[canvas_id]>>
                  ELSE sent.op = "create" /\ sent.page_id = Null
               /\ ~(pc' = "item" /\ ci' = ci /\ ai' = ai)
       ELSE reqs' = reqs \/ (reqs' = <<>> /\ run' = run + 1)]_vars
C4_Witness ==
  /\ impl = "sync" /\ pc = "done"
  /\ \E j, k \in 1..Len(reqs) : reqs[j].op = "update" /\ reqs[k].op = "create"

\* C5 (partial-failure resilience): a run of sync_assignments processes
\* every item of every scope whose listing succeeded, whichever writes
\* failed; and a run of three creates of which only the second failed ends
\* with a summary of created = 2 and failed = 1.
ListedItems ==
  LET listed == {k \in 1..Len(fetched) : fetched[k].ok}
  IN UNION {{CourseItems[fetched[k].course_id][n] :
               n \in 1..Len(CourseItems[fetched[k].course_id])} : k \in listed}
C5_PartialFailure ==
  (impl = "sync" /\ pc = "done")
    => /\ {reqs[k].item : k \in 1..Len(reqs)} = ListedItems
       /\ (/\ Len(reqs) = 3
            /\ \A k \in 1..3 : reqs[k].op = "create" /\ (reqs[k].ok <=> k # 2))
           => /\ {"created", "failed"} \subseteq DOMAIN summary
              /\ summary.created = 2
              /\ summary.failed = 1

\* C6 (run summary accounting): the summary of a finished run of
\* sync_assignments has the four counters total, created, updated and
\* failed; total is the number of items processed, created and updated the
\* numbers of successful creates and updates, failed the number of writes
\* that did not succeed, and total = created + updated + failed.
C6_SummaryAccounting ==
  (impl = "sync" /\ pc = "done")
    => /\ DOMAIN summary = {"total", "created", "updated", "failed"}
       /\ summary.total = Len(reqs)
       /\ summary.created = OkCount("create")
       /\ summary.updated = OkCount("update")
       /\ summary.failed = FailCount
       /\ summary.total = summary.created + summary.updated + summary.failed

\* C7 (scope-level failure): a run in which the item listing of a scope
\* got a non-success response is not aborted, requests the listing of every
\* scope, and sends no write request for an item of the failed scope.
C7_ScopeFailure ==
  (pc \in {"done", "aborted"} /\ \E k \in 1..Len(fetched) : ~fetched[k].ok)
    => /\ pc = "done"
       /\ {fetched[k].course_id : k \in 1..Len(fetched)}
            = {CourseIds[k] : k \in 1..Len(CourseIds)}
       /\ \A k \in 1..Len(fetched) : \A q \in 1..Len(reqs) :
            ~fetched[k].ok =>
              \A n \in 1..Len(CourseItems[fetched[k].course_id]) :
                reqs[q].item # CourseItems[fetched[k].course_id][n]

\* C8 (pagination completeness): when the scan of an indexed script ends
\* with every page request answered and the pages of the store carry
\* pairwise distinct, non-empty Canvas IDs, the index has exactly one entry
\* per page of the store, mapping its Canvas ID to its page id.
ScanEnded == (impl = "sync" /\ pc = "courses") \/ (impl = "cn" /\ pc = "course")
DistinctIds(st) ==
  /\ \A k \in 1..Len(st) : CanvasIdOf(st[k]) # ""
  /\ Unique(st)
NPages(st) == IF Len(st) = 0 THEN 1 ELSE (Len(st) + PageSize - 1) \div PageSize
C8_PaginationComplete ==
  (ScanEnded /\ "query" \notin failed /\ DistinctIds(store))
    => /\ DOMAIN existing_assignments = CanvasIds(store)
       /\ Cardinality(DOMAIN existing_assignments) = Len(store)
       /\ \A k \in 1..Len(store) :
            existing_assignments[CanvasIdOf(store[k])] = store[k].id
       /\ scanned = NPages(store)
C8_Witness ==
  /\ ScanEnded /\ "query" \notin failed /\ DistinctIds(store)
  /\ scanned = 3 /\ Len(store) = 2 * PageSize + 1
  /\ Cardinality(DOMAIN existing_assignments) = 2 * PageSize + 1

\* C9 (no partial index): an indexed script decides create-or-update only
\* after a scan whose page requests all succeeded, and sends no create for a
\* Canvas ID carried by a page the store held when the scan ran.
EngineStages == {"courses", "course", "item", "report", "done"}
C9_NoPartialIndex ==
  (Indexed /\ pc \in EngineStages)
    => /\ "query" \notin failed
       /\ \A k \in 1..Len(reqs) :
            reqs[k].op = "create" =>
              \A j \in PagesOf(store, str(reqs[k].item)) :
                j > Len(store) - OkCount("create")

\* C10 (status resolution): for every submission object, the status is
\* Completed exactly when a submission timestamp is present and the workflow
\* state is submitted; otherwise Submitted - Pending Review exactly when the
\* workflow state is pending_review; otherwise Late Submission exactly when
\* the late flag is set; otherwise In Progress.  A late, pending_review
\* signal without timestamp resolves to Submitted - Pending Review.
C10_StatusResolution ==
  (pc = "resolved" /\ the_submission # NoSubmission)
    => LET wf == IF "workflow_state" \in DOMAIN the_submission
                 THEN the_submission.workflow_state ELSE ""
           stamped == /\ "submitted_at" \in DOMAIN the_submission
                      /\ the_submission.submitted_at \notin {None, ""}
           late == "late" \in DOMAIN the_submission /\ the_submission.late
           rule2 == stamped /\ wf = "submitted"
           rule3 == ~rule2 /\ wf = "pending_review"
           rule4 == ~rule2 /\ ~rule3 /\ late
       IN /\ the_status = "Completed" <=> rule2
          /\ the_status = "Submitted - Pending Review" <=> rule3
          /\ the_status = "Late Submission" <=> rule4
          /\ the_status = "In Progress" <=> (~rule2 /\ ~rule3 /\ ~rule4)
          /\ (late /\ wf = "pending_review" /\ ~stamped)
               => the_status = "Submitted - Pending Review"
C10_Witness ==
  /\ pc = "resolved"
  /\ the_submission = [workflow_state |-> "pending_review", submitted_at |-> None,
                       late |-> TRUE]
  /\ the_status = "Submitted - Pending Review"

\* C11 (status default): in the item loop of sync_assignments every item
\* processed is written with the status resolved for it; that status is
\* Not Started exactly when the submission is absent, which happens exactly
\* when its fetch failed, and the item whose fetch failed is still sent.
C11_StatusDefault ==
  (impl = "sync" /\ reqs # <<>>)
    => LET sent == reqs[Len(reqs)]
       IN /\ Len(reqs) = total_assignments
          /\ sent.data.status = the_status
          /\ the_status = "Not Started" <=> the_submission = NoSubmission
          /\ ("submission" \in failed)
               <=> \E k \in 1..Len(reqs) : reqs[k].data.status = "Not Started"
C11_Witness ==
  /\ impl = "sync" /\ pc = "done" /\ "submission" \in failed
  /\ \E k \in 1..Len(reqs) :
        reqs[k].op = "create" /\ reqs[k].ok /\ reqs[k].data.status = "Not Started"

\* The property bag a write request of an indexed script carried.
Bag(req) ==
  IF impl = "cn" THEN req.data
  ELSE IF req.op = "create" THEN create_notion_page_props(req.data)
  ELSE update_notion_page_props(req.data)

\* C12 (schema-aware omission): every property bag an indexed script sends
\* on create or update names only fields the database's schema declares; in
\* particular no Points (Description) entry goes to a database without a
\* Points (Description) field.
C12_SchemaOmission ==
  Indexed => \A k \in 1..Len(reqs) : DOMAIN Bag(reqs[k]) \subseteq schema

\* C13 (truncation): the Description text of every create request of
\* create_notion_page is the first min(n, 2000) characters of the item's
\* description of n characters: 5000 characters are sent as exactly 2000,
\* and a description of at most 2000 characters is sent unchanged.
C13_Truncation ==
  impl = "sync"
    => \A k \in 1..Len(reqs) :
         reqs[k].op = "create"
           => LET text == canvas[reqs[k].item].description
                  sent == Bag(reqs[k])["Description"]
                  n == Len(text)
              IN /\ Len(sent) = IF n < 2000 THEN n ELSE 2000
                 /\ \A j \in 1..Len(sent) : sent[j] = text[j]
                 /\ n = 5000 => Len(sent) = 2000
                 /\ n <= 2000 => sent = text
C13_Witness ==
  /\ impl = "sync"
  /\ \E k \in 1..Len(reqs) :
        /\ reqs[k].op = "create" /\ reqs[k].ok
        /\ Len(canvas[reqs[k].item].description) = 5000
        /\ \E j \in 1..Len(store) :
              /\ CanvasIdOf(store[j]) = str(reqs[k].item)
              /\ Len(store[j].props["Description"]) = 2000

\* The hours a UTC offset stands for, and the instant (in UTC hours) that a
\* timestamp <<local hour, offset>> denotes.
OffsetHours(off) == IF off = "-05:00" THEN 0 - 5 ELSE 0
Instant(d) == d[1] - OffsetHours(d[2])

\* C14 (missing due date): every create and update bag of an indexed
\* script has the Due Date field when the schema declares it; the field is
\* an explicit null when the item has no due timestamp and a timestamp of
\* the item's due instant when it has one.
C14_MissingDueDate ==
  Indexed
    => \A k \in 1..Len(reqs) :
         "Due Date" \in schema
           => LET due_at == canvas[reqs[k].item].due_at
                  bag == Bag(reqs[k])
              IN /\ "Due Date" \in DOMAIN bag
                 /\ due_at = NoDue => bag["Due Date"] = Null
                 /\ due_at # NoDue
                      => /\ bag["Due Date"] # Null
                         /\ Instant(bag["Due Date"]) = Instant(due_at)
C14_Witness ==
  /\ Indexed /\ "Due Date" \in schema
  /\ \E j, k \in 1..Len(reqs) :
        /\ reqs[j].op = "update" /\ reqs[j].ok
        /\ canvas[reqs[j].item].due_at = NoDue
        /\ Bag(reqs[j])["Due Date"] = Null
        /\ reqs[k].op = "create" /\ reqs[k].ok
        /\ canvas[reqs[k].item].due_at = NoDue
        /\ Bag(reqs[k])["Due Date"] = Null

\* C15 (date normalization): the Due Date an indexed script sends for an
\* item with a due timestamp is a timestamp at UTC offset zero denoting the
\* same instant, and two items due at the same instant are sent the same
\* value, whatever offsets their source timestamps are written with.
C15_DateNormalization ==
  Indexed
    => \A j, k \in 1..Len(reqs) :
         LET dj == canvas[reqs[j].item].due_at
             dk == canvas[reqs[k].item].due_at
             bj == Bag(reqs[j])
             bk == Bag(reqs[k])
         IN ("Due Date" \in DOMAIN bj /\ dj # NoDue)
              => /\ bj["Due Date"] # Null
                 /\ bj["Due Date"][2] \in {"Z", "+00:00"}
                 /\ Instant(bj["Due Date"]) = Instant(dj)
                 /\ ("Due Date" \in DOMAIN bk /\ dk # NoDue
                      /\ Instant(dk) = Instant(dj))
                      => bk["Due Date"] = bj["Due Date"]

\* C16 (refresh-and-retry): in canvas_to_notion_oauth.py every lookup,
\* create or update request answered 401 is followed by exactly one token
\* refresh and, when the refresh succeeds, by one retry of the same
\* request; a retry answered 401 ends the run with no further call; and no
\* refresh is sent except after such a 401.
C16_RefreshAndRetry ==
  impl = "oauth"
    => \A k \in 1..Len(calls) :
         LET c == calls[k]
         IN /\ (c.call \in {"find", "create", "update"} /\ c.status = 401 /\ ~c.retry)
                => /\ k < Len(calls) \/ pc = "refresh"
                   /\ k < Len(calls)
                        => /\ calls[k + 1].call = "refresh"
                           /\ calls[k + 1].status = 200
                                => /\ k + 1 < Len(calls) \/ pc = "retry"
                                   /\ k + 1 < Len(calls)
                                        => /\ calls[k + 2].call = c.call
                                           /\ calls[k + 2].item = c.item
                                           /\ calls[k + 2].retry
            /\ (c.retry /\ c.status = 401) => (k = Len(calls) /\ pc = "aborted")
            /\ c.call = "refresh"
                => /\ k > 1
                   /\ calls[k - 1].status = 401 /\ ~calls[k - 1].retry

\* C17 (configuration error): in every state of a start in which a required
\* environment variable is unset, the script is still at its entry or has
\* stopped, and no request has been sent to the source or to the target: no
\* listing fetched, no query, lookup or write, no token exchange.
MissingConfig == Required(impl) \ environ # {}
NoNetworkCall ==
  /\ reqs = <<>> /\ fetched = <<>> /\ calls = <<>>
  /\ scanned = 0 /\ faults = 0 /\ failed = {}
  /\ token_data = Null
C17_ConfigurationError ==
  MissingConfig => pc \in {"idle", "exit", "aborted"} /\ NoNetworkCall

\* C17's case: a start with an unset variable has stopped.
C17_Witness ==
  /\ MissingConfig /\ run > 0 /\ pc \in {"exit", "aborted"}
  /\ NoNetworkCall

\* C18 (authorization failure): the scripts with a fixed token never look at
\* the status code, so a failed call of the target stands for any rejection,
\* a 401 among them. Once a call of the target (schema read, page query,
\* lookup, create or update) has failed in a run, the run does not reach its
\* normal end, a failed read of the target is followed by no write (the scan
\* of an indexing script precedes its writes; a failed lookup of the others
\* ends the run), and a failed write is the last write of the run.
TargetCalls == {"schema", "query", "write"}
C18_AuthorizationFailure ==
  failed \cap TargetCalls # {} =>
    /\ pc # "done"
    /\ Indexed /\ failed \cap {"schema", "query"} # {} => reqs = <<>>
    /\ ~Indexed /\ "query" \in failed => pc = "aborted"
    /\ \A k \in 1..Len(reqs) : ~reqs[k].ok => k = Len(reqs)

\* C19 (recovery after interruption): when the run before was terminated
\* from outside and the current run has ended with every call succeeding,
\* each source item has exactly one page in the store, and the run created
\* pages only for identities that had none when it started.
C19_Recovery ==
  (Indexed /\ prev.killed /\ pc = "done" /\ failed = {})
    => /\ \A i \in ItemIds : Cardinality(PagesOf(store, str(i))) = 1
       /\ \A k \in 1..Len(reqs) :
            reqs[k].op = "create" =>
              \A j \in PagesOf(store, str(reqs[k].item)) :
                j > Len(store) - OkCount("create")

\* C20 (scan before write): in every step of an indexing script, a page query
\* of the store is sent only while the run has sent no write and sends none
\* itself; a step that sends a write sends no page query and leaves the index
\* as it is; the index changes only in a step of the scan or at the start of
\* a run; and the start of a run empties the index, the collected pages and
\* the count of queries, so nothing of the run before is read.
C20_ScanBeforeWrite ==
  [][Indexed =>
       /\ pc = "scan" => reqs = <<>> /\ reqs' = <<>>
       /\ (reqs' # reqs /\ reqs' # <<>>) =>
            /\ pc = "item"
            /\ scanned' = scanned /\ results' = results
            /\ existing_assignments' = existing_assignments
       /\ existing_assignments' # existing_assignments =>
            pc = "scan" \/ run' = run + 1
       /\ run' = run + 1 =>
            /\ existing_assignments' = <<>> /\ results' = <<>>
            /\ scanned' = 0 /\ reqs' = <<>>]_vars

\* C20's case: a second run has scanned a store of more than one page, filled
\* by the first run, and has then sent a write.
C20_Witness ==
  /\ Indexed /\ run = 2 /\ prev.completed
  /\ scanned >= 2 /\ DOMAIN existing_assignments # {}
  /\ Len(reqs) >= 1

\* C21 (pagination protocol and termination): in every state of a scan the
\* first page request carried no cursor, every later request carried the
\* next cursor of the response before it, which was a success that reported
\* more pages, no two requests carried the same cursor, and a scan that has
\* ended without a failed request ended on a response reporting no more
\* pages; and every scan that is under way comes to its end.
Protocol ==
  /\ Len(queries) >= 1 => queries[1].cursor = Null
  /\ \A k \in 2..Len(queries) :
        /\ queries[k - 1].ok /\ queries[k - 1].has_more
        /\ queries[k].cursor # Null
        /\ queries[k].cursor = queries[k - 1].next_cursor
  /\ \A j, k \in 1..Len(queries) : j # k => queries[j].cursor # queries[k].cursor
  /\ (ScanEnded /\ "query" \notin failed)
       => /\ Len(queries) >= 1
          /\ ~queries[Len(queries)].has_more
  /\ Len(queries) <= NPages(store)
C21_Pagination == []Protocol /\ ((pc = "scan") ~> (pc # "scan"))

\* C21's case: a scan of three requests has ended, the second and the third
\* carrying a cursor.
C21_Witness ==
  /\ ScanEnded /\ "query" \notin failed
  /\ Len(queries) = 3 /\ queries[3].cursor = queries[2].next_cursor
  /\ queries[3].cursor # Null

\* C22 (index follows in-run creates): in every state of a run, a write for
\* an item that comes after a successful create for the same item in the
\* same run is an update, and the store, which started with at most one page
\* per Canvas ID, still holds at most one page per Canvas ID.
C22_IndexFollowsCreates ==
  /\ \A j, k \in 1..Len(reqs) :
        (j < k /\ reqs[j].op = "create" /\ reqs[j].ok /\ reqs[k].item = reqs[j].item)
          => reqs[k].op = "update"
  /\ Unique(store)

\* C23 (token persistence): in every step of canvas_to_notion_oauth.py,
\* get_tokens with a token file present returns the file's content, leaves
\* the file alone, does not wait for the callback and sends no request; the
\* code exchange that succeeds leaves in the file exactly the pair it
\* returns to main; a refresh that succeeds leaves in the file exactly the
\* pair it returns to the lookup; and no other step changes the file.
C23_TokenPersistence ==
  [][impl = "oauth" =>
       /\ (pc = "tokens" /\ pc' # pc /\ token_file # Null)
            => /\ token_data' = token_file[1] /\ token_file' = token_file
               /\ pc' = "course" /\ calls' = calls /\ faults' = faults
       /\ (pc = "listen" /\ pc' = "course")
            => token_file' = <<token_data'>> /\ token_data' # token_data
       /\ (pc = "refresh" /\ pc' = "retry")
            => token_file' = <<find_token'>> /\ find_token' # find_token
       /\ token_file' # token_file
            => \/ pc = "listen" /\ pc' = "course"
               \/ pc = "refresh" /\ pc' = "retry"]_vars

\* C23's case: a run that read the saved file has since refreshed the
\* token, and the file holds the refreshed pair.
C23_Witness ==
  /\ impl = "oauth" /\ pc = "retry"
  /\ \A k \in 1..Len(calls) : calls[k].call # "token"
  /\ token_data = Token(1) /\ find_token = Token(2) /\ token_file = <<Token(2)>>

\* C24 (refreshed token is carried forward): in every state of a run of
\* canvas_to_notion_oauth.py, every lookup, create or update sent after a
\* successful token refresh of the run carries the access token of the
\* latest such refresh, not the token that was rejected.
Refreshes(k) ==
  {j \in 1..(k - 1) : calls[j].call = "refresh" /\ calls[j].status = 200}
LatestRefresh(k) == CHOOSE j \in Refreshes(k) : \A i \in Refreshes(k) : i <= j
C24_RefreshedTokenCarried ==
  impl = "oauth"
    => \A k \in 1..Len(calls) :
         (calls[k].call \in {"find", "create", "update"} /\ Refreshes(k) # {})
           => calls[k].token = Token(calls[LatestRefresh(k)].token + 1).access_token

\* C25 (update frame): in every step that sends an update request, the
\* store keeps its number of pages, every page other than the one the
\* request addresses stays as it was, and the addressed page keeps its id
\* and its Canvas ID.
C25_UpdateFrame ==
  [][(Len(reqs') = Len(reqs) + 1 /\ reqs'[Len(reqs')].op = "update")
       => LET sent == reqs'[Len(reqs')]
          IN /\ Len(store') = Len(store)
             /\ \A i \in 1..Len(store) :
                   /\ store'[i].id = store[i].id
                   /\ store[i].id # sent.page_id[1] => store'[i] = store[i]
                   /\ CanvasIdOf(store'[i]) = CanvasIdOf(store[i])]_vars

\* C25's case: a run over a store of several pages has sent an update that
\* succeeded and changed the page it addressed.
C25_Witness ==
  /\ Indexed /\ Len(store) >= 3 /\ Len(reqs) >= 1
  /\ reqs[Len(reqs)].op = "update" /\ reqs[Len(reqs)].ok
  /\ \E i \in 1..Len(store) :
        /\ store[i].id = reqs[Len(reqs)].page_id[1]
        /\ store[i].props["Status"] # OldPage(1)["Status"]

\* C26 (records without an external id): in every state of a run the index
\* has no entry for the empty Canvas ID, every entry names a page that
\* carries the entry's Canvas ID, and every update sent addresses a page with
\* a Canvas ID that is present and not empty; and when the scan has ended
\* with every request answered, before the first write, the index has
\* exactly the Canvas IDs the pages carry, each pointing at the last page of
\* the store that carries it.
PageWithId(page_id) == CHOOSE i \in 1..Len(store) : store[i].id = page_id
LastPageOf(canvas_id) ==
  CHOOSE j \in PagesOf(store, canvas_id) : \A i \in PagesOf(store, canvas_id) : i <= j
C26_NoExternalId ==
  Indexed =>
    /\ "" \notin DOMAIN existing_assignments
    /\ \A c \in DOMAIN existing_assignments :
          \E i \in PagesOf(store, c) : store[i].id = existing_assignments[c]
    /\ \A k \in 1..Len(reqs) :
          reqs[k].op = "update" =>
            /\ "Canvas ID" \in DOMAIN store[PageWithId(reqs[k].page_id[1])].props
            /\ CanvasIdOf(store[PageWithId(reqs[k].page_id[1])]) = str(reqs[k].item)
    /\ (ScanEnded /\ reqs = <<>> /\ "query" \notin failed)
         => /\ DOMAIN existing_assignments = CanvasIds(store)
            /\ \A c \in DOMAIN existing_assignments :
                  existing_assignments[c] = store[LastPageOf(c)].id

\* C26's case: the store holds a page without the property and two pages
\* naming item 1; the run has updated the second of the two.
C26_Witness ==
  /\ Indexed /\ "query" \notin failed
  /\ \E i \in 1..Len(store) : "Canvas ID" \notin DOMAIN store[i].props
  /\ Cardinality(PagesOf(store, "1")) = 2
  /\ \E k \in 1..Len(reqs) :
        /\ reqs[k].op = "update" /\ reqs[k].ok /\ reqs[k].item = 1
        /\ reqs[k].page_id[1] = store[LastPageOf("1")].id

\* C27 (entry point reaches the sync): a start of main of
\* canvas_notion_sync.py with the four required variables set and no flag,
\* or with the --list-courses flag, does not end in an error: without the
\* flag it goes on to sync_assignments, with the flag it returns.
ListCourses == Len(argv) > 0 /\ argv[1] = "--list-courses"
C27_EntryPoint ==
  (impl = "sync" /\ run > 0 /\ (ListCourses \/ Required("sync") \subseteq environ))
    => pc # "aborted"

====
